---- MODULE Spec2Model ----
(***************************************************************************)
(* SL - Simple String Library (src/src/sl.c, src/src/sl.h).                *)
(*                                                                         *)
(* One SL string is modelled at the level of its memory: the caller's      *)
(* handle, the allocator's block, the descriptor fields res and len, and   *)
(* the content bytes of the block.  C index i of the content is str[i+1].  *)
(* Every library function is an operator from a machine record to a        *)
(* machine record; what the C standard leaves open (the result of malloc   *)
(* and realloc, the bytes of fresh or released memory, strncpy over        *)
(* overlapping ranges) is an argument e of the operator, and the actions   *)
(* choose it with \E.                                                      *)
(***************************************************************************)
EXTENDS Integers, Sequences, FiniteSets, TLC

VARIABLES sp,    \* the caller's handle (sls): address of content[0], 0 = NULL
          blk,   \* address of the block the allocator holds for the string, 0 = none
          res,   \* descriptor field res: storage size of the content
          len,   \* descriptor field len: length without the terminating 0
          str,   \* the bytes of the block's content storage
          call,  \* the last library call: its name, arguments, effects
          lawful \* every call so far had its positions inside the range of
                 \* the string and met no allocation failure

vars == <<sp, blk, res, len, str, call, lawful>>

(* ---------------------------------------------------------------- bounds *)

\* Largest storage size a sequence of operations may grow the string to.
MaxRes == 3
\* Largest storage size of the string a single call is applied to.
MaxInitRes == 5
\* Longest C string given as an argument.
MaxArg == 2
\* Longest string of an array given to slglu.
MaxPiece == 1

(* ------------------------------------------------------------- constants *)

NULL == 0
\* sizeof( sl_s ): two uint32_t fields.
SlSize == 8

\* 'a', '/': the characters of argument strings.
Chars == {97, 47}
\* '.', written by sldir.
Dot == 46
Slash == 47
\* Values an indeterminate byte (fresh or released memory) may be read as.
JunkBytes == {0, 120}
\* Addresses at which the allocator places a block.
Bases == {16, 64}

RECURSIVE SeqsUpTo(_, _)
SeqsUpTo(S, n) ==
    IF n = 0 THEN {<<>>}
    ELSE LET shorter == SeqsUpTo(S, n - 1)
         IN shorter \cup {Append(q, c) : q \in {t \in shorter : Len(t) = n - 1}, c \in S}

\* The C strings passed as arguments (without their terminating 0).
CStr == SeqsUpTo(Chars, MaxArg)

\* What the environment decides during one call:
\*   fail  - the allocator returns NULL
\*   addr  - where the allocator places a block (realloc moves iff it differs)
\*   junk  - the value of indeterminate bytes
\*   fwd   - strncpy over overlapping ranges copies byte by byte, low to high
\*           (otherwise it measures the source first and copies like memmove)
\*   stale - a released block still reads as it was left
Env == [fail : BOOLEAN, addr : Bases, junk : JunkBytes, fwd : BOOLEAN, stale : BOOLEAN]

\* No allocation is needed: nothing to decide.
NoEnv == [fail |-> FALSE, addr |-> 16, junk |-> 0, fwd |-> FALSE, stale |-> TRUE]

(* ------------------------------------------------------------ the machine *)

\* The machine a call starts from: the string, and an empty record of effects.
\*   ret      - the value the call returns
\*   p        - the pointer the allocator returned last
\*   old      - the block realloc released, as it was left (base 0 = none)
\*   frees    - the pointers passed to sl_free
\*   mallocs, reallocs - calls of sl_malloc, sl_realloc
\*   nomem    - the allocator returned NULL
\*   oob      - a byte was written outside the content storage
\*   uaf      - a byte of a released block was read or written
\*   nullw    - a field or byte was written through a NULL block pointer
Machine(h, b, r, l, s) ==
    [sp |-> h, blk |-> b, res |-> r, len |-> l, str |-> s,
     ret |-> 0, p |-> 0, old |-> [base |-> 0, len |-> 0, str |-> <<>>],
     frees |-> <<>>, mallocs |-> 0, reallocs |-> 0,
     nomem |-> FALSE, oob |-> FALSE, uaf |-> FALSE, nullw |-> FALSE]

M == Machine(sp, blk, res, len, str)

sl_malsize(s) == SlSize + s
sl_str(base) == base + SlSize
sl_base(s) == s - SlSize
sl_len1(m) == m.len + 1

\* ss[ i ] read: a byte outside the storage is indeterminate.
rd(m, i, e) == IF i >= 0 /\ i < Len(m.str) THEN m.str[i + 1] ELSE e.junk

\* ss[ i ] = b.
wr(m, i, b) ==
    IF i >= 0 /\ i < Len(m.str) THEN [m EXCEPT !.str[i + 1] = b]
    ELSE [m EXCEPT !.oob = TRUE]

RECURSIVE wrseq(_, _, _)
\* bs stored at ss[ i ], ss[ i+1 ], ...
wrseq(m, i, bs) ==
    IF bs = <<>> THEN m ELSE wrseq(wr(m, i, Head(bs)), i + 1, Tail(bs))

\* The n bytes at ss[ i ] ...
rdseq(m, i, n, e) == [k \in 1..n |-> rd(m, i + k - 1, e)]

\* memmove( ss + d, ss + s, n ): the source is read before anything is stored.
memmove(m, d, s, n, e) == IF n <= 0 THEN m ELSE wrseq(m, d, rdseq(m, s, n, e))

\* The n bytes strncpy( dst, src, n ) stores for a source holding C string cs.
strncpy_img(cs, n) == [k \in 1..n |-> IF k <= Len(cs) THEN cs[k] ELSE 0]

\* strncpy( ss + d, cs, n ) from a C string outside the block.
strncpy_c(m, d, cs, n) == wrseq(m, d, strncpy_img(cs, n))

RECURSIVE strnlen_at(_, _, _, _)
\* Number of bytes before the first 0 at ss[ s ] ..., at most n.
strnlen_at(m, s, n, e) ==
    IF n <= 0 \/ rd(m, s, e) = 0 THEN 0 ELSE 1 + strnlen_at(m, s + 1, n - 1, e)

RECURSIVE strncpy_fwd(_, _, _, _, _)
\* strncpy( ss + d, ss + s, n ) as a byte loop from low to high addresses.
strncpy_fwd(m, d, s, n, e) ==
    IF n <= 0 THEN m
    ELSE LET c == rd(m, s, e)
         IN IF c = 0 THEN wrseq(m, d, [k \in 1..n |-> 0])
            ELSE strncpy_fwd(wr(m, d, c), d + 1, s + 1, n - 1, e)

\* strncpy( ss + d, ss + s, n ) with the source inside the block.  Ranges that
\* overlap without being equal are undefined: either copy order may result.
strncpy_s(m, d, s, n, e) ==
    LET k == strnlen_at(m, s, n, e)
        srcn == IF k < n THEN k + 1 ELSE n
        overlap == n > 0 /\ d # s /\ d < s + srcn /\ s < d + n
    IN IF overlap /\ e.fwd THEN strncpy_fwd(m, d, s, n, e)
       ELSE wrseq(m, d, strncpy_img(rdseq(m, s, k, e), n))

(* ---------------------------------------------------------- the allocator *)

\* sl_malloc( size ): NULL, or a block of size bytes of indeterminate content.
sl_malloc(m, size, e) ==
    IF e.fail THEN [m EXCEPT !.p = NULL, !.nomem = TRUE, !.mallocs = @ + 1]
    ELSE [m EXCEPT !.p = e.addr, !.blk = e.addr, !.mallocs = @ + 1,
                   !.str = [k \in 1..(size - SlSize) |-> e.junk]]

\* sl_free( ptr ).
sl_free(m, ptr) ==
    [m EXCEPT !.frees = Append(@, ptr),
              !.blk = IF ptr = m.blk THEN 0 ELSE @,
              !.str = IF ptr = m.blk THEN <<>> ELSE @]

\* sl_realloc( ptr, size ): NULL and the block untouched, or a block of size
\* bytes that keeps the old bytes up to the smaller size, in place or moved;
\* a moved block's old storage is released.
sl_realloc(m, ptr, size, e) ==
    LET n == size - SlSize
        bytes == [k \in 1..n |-> IF k <= Len(m.str) THEN m.str[k] ELSE e.junk]
    IN IF e.fail THEN [m EXCEPT !.p = NULL, !.nomem = TRUE, !.reallocs = @ + 1]
       ELSE [m EXCEPT !.p = e.addr, !.blk = e.addr, !.str = bytes,
                      !.reallocs = @ + 1,
                      !.old = IF e.addr # ptr
                              THEN [base |-> ptr, len |-> m.len,
                                    str |-> IF e.stale THEN m.str
                                            ELSE [k \in 1..Len(m.str) |-> e.junk]]
                              ELSE @]

(* ------------------------------------------------------------ the library *)

\* A char* argument: addr = 0 is memory outside the string's block holding the
\* C string cs; any other addr is the value the handle had when the call was made.
CPtr(cs) == [addr |-> 0, cs |-> cs]
SlPtr(m) == [addr |-> m.sp, cs |-> <<>>]

\* strlen( s2 ) as the caller of a _c function computes it before the call.
sc_len(m, s2, e) ==
    IF s2.addr = 0 THEN Len(s2.cs) ELSE strnlen_at(m, 0, Len(m.str) + 1, e)

\* sl_len( s2 ) of an SL argument: the other string's length, or this one's.
sl_len_of(m, s2) == IF s2.addr = 0 THEN Len(s2.cs) ELSE m.len

sls_null(m) == [m EXCEPT !.nullw = TRUE, !.sp = sl_str(NULL), !.ret = sl_str(NULL)]

slnew(m, size, e) ==
    LET a == sl_malloc(m, sl_malsize(size), e)
    IN IF a.p = NULL
       THEN \* s->res, s->len, s->str[ 0 ] are stored through NULL
            [sls_null(a) EXCEPT !.res = 0, !.len = 0]
       ELSE LET b == [a EXCEPT !.res = size, !.len = 0, !.sp = sl_str(a.p)]
            IN [wr(b, 0, 0) EXCEPT !.ret = sl_str(a.p)]

\* sldel that passes the handle, not the descriptor, to sl_free.
sldel_handle(m) ==
    LET a == sl_free(m, m.sp)
    IN [a EXCEPT !.sp = 0, !.ret = NULL, !.res = 0, !.len = 0]

sldel(m) ==
    LET a == sl_free(m, sl_base(m.sp))
    IN [a EXCEPT !.sp = 0, !.ret = NULL, !.res = 0, !.len = 0]

\* slres that grows to twice the size asked for.
slres_double(m, size, e) ==
    IF m.res < size
    THEN LET a == sl_realloc(m, sl_base(m.sp), sl_malsize(2 * size), e)
         IN IF a.p = NULL THEN sls_null(a)
            ELSE [a EXCEPT !.res = 2 * size, !.sp = sl_str(a.p), !.ret = sl_str(a.p)]
    ELSE [m EXCEPT !.ret = m.sp]

slres(m, size, e) ==
    IF m.res < size
    THEN LET a == sl_realloc(m, sl_base(m.sp), sl_malsize(size), e)
         IN IF a.p = NULL THEN sls_null(a)
            ELSE [a EXCEPT !.res = size, !.sp = sl_str(a.p), !.ret = sl_str(a.p)]
    ELSE [m EXCEPT !.ret = m.sp]

\* slmin that leaves no room for the terminating 0.
slmin_len(m, e) ==
    LET l == m.len
    IN IF m.res > l
       THEN LET a == sl_realloc(m, sl_base(m.sp), sl_malsize(l), e)
            IN IF a.p = NULL THEN sls_null(a)
               ELSE [a EXCEPT !.res = l, !.sp = sl_str(a.p), !.ret = sl_str(a.p)]
       ELSE [m EXCEPT !.ret = m.sp]

slmin(m, e) ==
    LET l == sl_len1(m)
    IN IF m.res > l
       THEN LET a == sl_realloc(m, sl_base(m.sp), sl_malsize(l), e)
            IN IF a.p = NULL THEN sls_null(a)
               ELSE [a EXCEPT !.res = l, !.sp = sl_str(a.p), !.ret = sl_str(a.p)]
       ELSE [m EXCEPT !.ret = m.sp]

sl_ensure(m, size, e) == slres(m, size, e)

\* The sum is taken in sl_size_t (uint32_t); it does not wrap for idx >= -len,
\* which is the range the callers keep to.
sl_norm_idx(m, idx) ==
    IF idx < 0 THEN m.len + idx
    ELSE IF idx > m.len THEN m.len
    ELSE idx

\* strncpy( *s1 + d, s2, n ) after *s1 may have been reallocated: s2 is outside
\* the block, or is the handle itself, or still names the block realloc released.
strncpy_from(a, d, s2, n, e) ==
    IF s2.addr = 0 THEN strncpy_c(a, d, s2.cs, n)
    ELSE IF s2.addr = a.sp THEN strncpy_s(a, d, 0, n, e)
    ELSE LET o == [str |-> a.old.str]
             k == strnlen_at(o, 0, n, e)
         IN [wrseq(a, d, strncpy_img(rdseq(o, 0, k, e), n)) EXCEPT !.uaf = TRUE]

\* slcpy_base that counts the terminating 0 into the length.
slcpy_base_len(m, s2, len1, e) ==
    LET a == sl_ensure(m, len1, e)
    IN IF a.nullw THEN a
       ELSE LET b == strncpy_from(a, 0, s2, len1, e)
            IN [b EXCEPT !.len = len1, !.ret = b.sp]

slcpy_base(m, s2, len1, e) ==
    LET a == sl_ensure(m, len1, e)
    IN IF a.nullw THEN a
       ELSE LET b == strncpy_from(a, 0, s2, len1, e)
            IN [b EXCEPT !.len = len1 - 1, !.ret = b.sp]

slcpy(m, s2, e) == slcpy_base(m, s2, sl_len_of(m, s2) + 1, e)

slcpy_c(m, s2, e) == slcpy_base(m, s2, sc_len(m, s2, e) + 1, e)

\* slcat_base that copies the characters without the terminating 0.
slcat_base_noterm(m, s2, len1, e) ==
    LET a == sl_ensure(m, m.len + len1, e)
    IN IF a.nullw THEN a
       ELSE LET b == strncpy_from(a, a.len, s2, len1 - 1, e)
            IN [b EXCEPT !.len = @ + len1 - 1, !.ret = b.sp]

slcat_base(m, s2, len1, e) ==
    LET a == sl_ensure(m, m.len + len1, e)
    IN IF a.nullw THEN a
       ELSE LET b == strncpy_from(a, a.len, s2, len1, e)
            IN [b EXCEPT !.len = @ + len1 - 1, !.ret = b.sp]

slcat(m, s2, e) == slcat_base(m, s2, sl_len_of(m, s2) + 1, e)

slcat_c(m, s2, e) == slcat_base(m, s2, sc_len(m, s2, e) + 1, e)

\* slins_base that moves the tail before len1 is decremented.
slins_base_tail(m, pos, s2, len1, e) ==
    LET a == sl_ensure(m, m.len + len1, e)
        n == len1 - 1
        posn == sl_norm_idx(a, pos)
        tail == posn + len1
    IN IF a.nullw THEN a
       ELSE LET b == memmove(a, tail, posn, a.len - posn, e)
                c == strncpy_from(b, posn, s2, n, e)
                d == [c EXCEPT !.len = @ + n]
            IN [wr(d, d.len, 0) EXCEPT !.ret = d.sp]

slins_base(m, pos, s2, len1, e) ==
    LET a == sl_ensure(m, m.len + len1, e)
        n == len1 - 1
        posn == sl_norm_idx(a, pos)
        tail == posn + n
    IN IF a.nullw THEN a
       ELSE LET b == memmove(a, tail, posn, a.len - posn, e)
                c == strncpy_from(b, posn, s2, n, e)
                d == [c EXCEPT !.len = @ + n]
            IN [wr(d, d.len, 0) EXCEPT !.ret = d.sp]

slins(m, pos, s2, e) == slins_base(m, pos, s2, sl_len_of(m, s2) + 1, e)

slins_c(m, pos, s2, e) == slins_base(m, pos, s2, sc_len(m, s2, e) + 1, e)

slstr_c(m, cs, e) ==
    LET l == Len(cs) + 1
        a == slnew(m, l, e)
    IN IF a.nullw THEN a
       ELSE LET b == strncpy_c(a, 0, cs, l)
            IN [b EXCEPT !.len = l - 1, !.ret = b.sp]

slsiz_c(m, cs, size, e) ==
    LET l == Len(cs) + 1
        a == IF size > l THEN slnew(m, size, e) ELSE slnew(m, l, e)
    IN IF a.nullw THEN a ELSE slcpy_c(a, CPtr(cs), e)

sllen(m) == m.len

slall(m) == m.res

slfil(m, c, cnt, e) ==
    LET l == m.len
        a == sl_ensure(m, l + cnt + 1, e)
    IN IF a.nullw THEN a
       ELSE LET b == wrseq(a, l, [k \in 1..cnt |-> c])
                d == wr(b, l + cnt, 0)
            IN [d EXCEPT !.len = @ + cnt, !.ret = d.sp]

RECURSIVE slmul_loop(_, _, _, _, _)
\* for ( i = 0; i < cnt; i++ ) { strncpy( p, cs, clen ); *p += clen; }
slmul_loop(m, p, cs, i, e) ==
    IF i = 0 THEN m
    ELSE LET a == strncpy_c(m, p, cs, Len(cs))
             b == wr(a, p, (rd(a, p, e) + Len(cs)) % 256)
         IN slmul_loop(b, p, cs, i - 1, e)

slmul(m, cs, cnt, e) ==
    LET l == m.len
        clen == Len(cs)
        a == sl_ensure(m, l + cnt * clen + 1, e)
    IN IF a.nullw THEN a
       ELSE LET b == slmul_loop(a, l, cs, cnt, e)
                d == wr(b, l, 0)
            IN [d EXCEPT !.len = @ + cnt, !.ret = d.sp]

slclr(m) == [wr([m EXCEPT !.len = 0], 0, 0) EXCEPT !.ret = m.sp]

slpsh(m, pos, c, e) ==
    LET posn == sl_norm_idx(m, pos)
        a == sl_ensure(m, m.len + 1, e)
    IN IF a.nullw THEN a
       ELSE IF a.sp # m.sp
       THEN \* s = sl_base( *sp ) was taken before the block moved: every store
            \* goes to the released block, the new block keeps content and len
            [a EXCEPT !.uaf = TRUE, !.ret = a.sp]
       ELSE LET b == IF posn # a.len
                     THEN memmove(a, posn + 1, posn, a.len - posn, e) ELSE a
                c1 == wr(b, posn, c)
                d == [c1 EXCEPT !.len = @ + 1]
            IN [wr(d, d.len, 0) EXCEPT !.ret = d.sp]

slpop(m, pos, e) ==
    LET posn == sl_norm_idx(m, pos)
    IN IF posn # m.len
       THEN [memmove(m, posn, posn + 1, m.len - posn, e)
                EXCEPT !.len = @ - 1, !.ret = m.sp]
       ELSE [m EXCEPT !.ret = m.sp]

slcut(m, cnt, e) ==
    IF cnt >= 0
    THEN LET pos == m.len - cnt
         IN [wr(m, pos, 0) EXCEPT !.len = pos, !.ret = m.sp]
    ELSE LET l == m.len + cnt
             pos == -cnt
             a == memmove(m, 0, pos, l, e)
         IN [wr([a EXCEPT !.len = l], l, 0) EXCEPT !.ret = m.sp]

\* slsel without the reordering of its boundaries.
slsel_noswap(m, a, b, e) ==
    LET an == sl_norm_idx(m, a)
        bn == sl_norm_idx(m, b)
        c == memmove(m, 0, an, bn - an, e)
    IN [wr(c, bn - an, 0) EXCEPT !.len = bn - an, !.ret = m.sp]

slsel(m, a, b, e) ==
    LET an0 == sl_norm_idx(m, a)
        bn0 == sl_norm_idx(m, b)
        an == IF bn0 < an0 THEN bn0 ELSE an0
        bn == IF bn0 < an0 THEN an0 ELSE bn0
        c == memmove(m, 0, an, bn - an, e)
    IN [wr(c, bn - an, 0) EXCEPT !.len = bn - an, !.ret = m.sp]

RECURSIVE last_slash(_, _, _)
\* while ( i > 0 && ss[ i ] != '/' ) i--;
last_slash(m, i, e) ==
    IF i > 0 /\ rd(m, i, e) # Slash THEN last_slash(m, i - 1, e) ELSE i

sldir(m, e) ==
    LET i == last_slash(m, m.len, e)
    IN IF i = 0
       THEN IF rd(m, 0, e) = Slash
            THEN [wr(m, 1, 0) EXCEPT !.len = 1, !.ret = m.sp]
            ELSE [wr(wr(m, 0, Dot), 1, 0) EXCEPT !.len = 1, !.ret = m.sp]
       ELSE [wr(m, i, 0) EXCEPT !.len = i, !.ret = m.sp]

\* slbas that keeps the separator in front of the base name.
slbas_sep(m, e) ==
    LET i == last_slash(m, m.len, e)
    IN IF i = 0 /\ rd(m, 0, e) # Slash THEN [m EXCEPT !.ret = m.sp]
       ELSE LET l == m.len - i
                a == memmove(m, 0, i, l, e)
            IN [wr([a EXCEPT !.len = l], l, 0) EXCEPT !.ret = m.sp]

slbas(m, e) ==
    LET i == last_slash(m, m.len, e)
    IN IF i = 0 /\ rd(m, 0, e) # Slash THEN [m EXCEPT !.ret = m.sp]
       ELSE LET j == i + 1
                l == m.len - j
                a == memmove(m, 0, j, l, e)
            IN [wr([a EXCEPT !.len = l], l, 0) EXCEPT !.ret = m.sp]

RECURSIVE slswp_loop(_, _, _, _, _)
\* while ( i < sl_len( ss ) ) { if ( ss[ i ] == f ) ss[ i ] = t; i++; }
slswp_loop(m, i, f, t, e) ==
    IF i < m.len
    THEN slswp_loop(IF rd(m, i, e) = f THEN wr(m, i, t) ELSE m, i + 1, f, t, e)
    ELSE m

slswp(m, f, t, e) == [slswp_loop(m, 0, f, t, e) EXCEPT !.ret = m.sp]

(* ------------------------------------------------- sequences of calls *)

Effects(r) ==
    [ret |-> r.ret, frees |-> r.frees, mallocs |-> r.mallocs,
     reallocs |-> r.reallocs, nomem |-> r.nomem, oob |-> r.oob,
     uaf |-> r.uaf, nullw |-> r.nullw]

Commit(r) ==
    /\ sp' = r.sp
    /\ blk' = r.blk
    /\ res' = r.res
    /\ len' = r.len
    /\ str' = r.str

\* The handle designates a block the allocator holds.
Live == sp # NULL /\ blk # 0 /\ sp = sl_str(blk)

\* No call is on record.
NoCall == [op |-> "none"]

\* One call in a sequence of calls; the storage stays within MaxRes (a length
\* below 0 stands for one wrapped around in uint32_t, far beyond MaxRes).  Only
\* the string is carried from call to call, no record of the call is kept.
Run(op, r, inrange) ==
    /\ r.res <= MaxRes
    /\ r.len \in 0..MaxRes
    /\ Commit(r)
    /\ call' = NoCall
    /\ lawful' = (lawful /\ inrange /\ ~r.nomem)

\* A position argument inside the current range of the string.
InRange(pos) == pos \in (0 - len) .. len

\* The environments a call can tell apart: the allocator's decisions when it
\* is called, the copy order and the released block when the source is the
\* string itself, and always the value of indeterminate bytes.
EnvOf(alloc, self) ==
    {e \in Env : /\ (~alloc => e.fail = FALSE /\ e.addr = NoEnv.addr)
                 /\ (e.fail => e.addr = NoEnv.addr /\ e.junk = NoEnv.junk /\ e.fwd = FALSE)
                 /\ (~(alloc /\ self) \/ e.fail => e.stale = TRUE)
                 /\ (~self => e.fwd = FALSE)}

\* The SL arguments of slcpy, slcat, slins: the string itself or another SL.
SlArgs == {SlPtr(M)} \cup {CPtr(cs) : cs \in CStr}

\* Every position argument inside the range of the string, and one beyond.
PosArgs == (0 - len) .. (len + 1)

Init ==
    /\ sp = NULL
    /\ blk = 0
    /\ res = 0
    /\ len = 0
    /\ str = <<>>
    /\ call = NoCall
    /\ lawful = TRUE

Op_slnew ==
    /\ sp = NULL
    /\ \E size \in 1..MaxRes, e \in EnvOf(TRUE, FALSE) :
           Run("slnew", slnew(M, size, e), TRUE)

Op_slstr_c ==
    /\ sp = NULL
    /\ \E cs \in CStr, e \in EnvOf(TRUE, FALSE) :
           Run("slstr_c", slstr_c(M, cs, e), TRUE)

Op_slsiz_c ==
    /\ sp = NULL
    /\ \E cs \in CStr, size \in 0..MaxRes, e \in EnvOf(TRUE, FALSE) :
           Run("slsiz_c", slsiz_c(M, cs, size, e), TRUE)

Op_sldel == Live /\ Run("sldel", sldel(M), TRUE)

Op_slres ==
    /\ Live
    /\ \E size \in 0..MaxRes : \E e \in EnvOf(res < size, FALSE) :
           Run("slres", slres(M, size, e), TRUE)

Op_slmin ==
    /\ Live
    /\ \E e \in EnvOf(res > len + 1, FALSE) : Run("slmin", slmin(M, e), TRUE)

Op_slcpy ==
    /\ Live
    /\ \E s2 \in SlArgs : \E e \in EnvOf(res < sl_len_of(M, s2) + 1, s2.addr # 0) :
           Run("slcpy", slcpy(M, s2, e), TRUE)

Op_slcpy_c ==
    /\ Live
    /\ \E cs \in CStr : \E e \in EnvOf(res < Len(cs) + 1, FALSE) :
           Run("slcpy_c", slcpy_c(M, CPtr(cs), e), TRUE)

Op_slcat ==
    /\ Live
    /\ \E s2 \in SlArgs : \E e \in EnvOf(res < len + sl_len_of(M, s2) + 1, s2.addr # 0) :
           Run("slcat", slcat(M, s2, e), TRUE)

Op_slcat_c ==
    /\ Live
    /\ \E cs \in CStr : \E e \in EnvOf(res < len + Len(cs) + 1, FALSE) :
           Run("slcat_c", slcat_c(M, CPtr(cs), e), TRUE)

Op_slins ==
    /\ Live
    /\ \E s2 \in SlArgs, pos \in PosArgs :
           \E e \in EnvOf(res < len + sl_len_of(M, s2) + 1, s2.addr # 0) :
               Run("slins", slins(M, pos, s2, e), InRange(pos))

Op_slins_c ==
    /\ Live
    /\ \E cs \in CStr, pos \in PosArgs : \E e \in EnvOf(res < len + Len(cs) + 1, FALSE) :
           Run("slins_c", slins_c(M, pos, CPtr(cs), e), InRange(pos))

Op_slfil ==
    /\ Live
    /\ \E c \in Chars, cnt \in 0..MaxArg : \E e \in EnvOf(res < len + cnt + 1, FALSE) :
           Run("slfil", slfil(M, c, cnt, e), TRUE)

Op_slmul ==
    /\ Live
    /\ \E cs \in CStr, cnt \in 0..MaxArg :
           \E e \in EnvOf(res < len + cnt * Len(cs) + 1, FALSE) :
               Run("slmul", slmul(M, cs, cnt, e), TRUE)

Op_slclr == Live /\ Run("slclr", slclr(M), TRUE)

Op_slpsh ==
    /\ Live
    /\ \E pos \in PosArgs, c \in Chars : \E e \in EnvOf(res < len + 1, FALSE) :
           Run("slpsh", slpsh(M, pos, c, e), InRange(pos))

Op_slpop ==
    /\ Live
    /\ \E pos \in PosArgs, e \in EnvOf(FALSE, FALSE) :
           Run("slpop", slpop(M, pos, e), InRange(pos))

Op_slcut ==
    /\ Live
    /\ \E cnt \in (0 - len) .. len, e \in EnvOf(FALSE, FALSE) :
           Run("slcut", slcut(M, cnt, e), TRUE)

Op_slsel ==
    /\ Live
    /\ \E a \in PosArgs, b \in PosArgs, e \in EnvOf(FALSE, FALSE) :
           Run("slsel", slsel(M, a, b, e), InRange(a) /\ InRange(b))

Op_sldir ==
    /\ Live
    /\ \E e \in EnvOf(FALSE, FALSE) : Run("sldir", sldir(M, e), TRUE)

Op_slbas ==
    /\ Live
    /\ \E e \in EnvOf(FALSE, FALSE) : Run("slbas", slbas(M, e), TRUE)

Op_slswp ==
    /\ Live
    /\ \E f \in Chars \cup {0}, t \in Chars, e \in EnvOf(FALSE, FALSE) :
           Run("slswp", slswp(M, f, t, e), TRUE)

Next ==
    \/ Op_slnew \/ Op_slstr_c \/ Op_slsiz_c \/ Op_sldel
    \/ Op_slres \/ Op_slmin
    \/ Op_slcpy \/ Op_slcpy_c \/ Op_slcat \/ Op_slcat_c
    \/ Op_slins \/ Op_slins_c
    \/ Op_slfil \/ Op_slmul \/ Op_slclr
    \/ Op_slpsh \/ Op_slpop \/ Op_slcut \/ Op_slsel
    \/ Op_sldir \/ Op_slbas \/ Op_slswp

Spec == Init /\ [][Next]_vars

(* ------------------------------------------------------- single calls *)

\* What the storage holds behind the terminating 0: indeterminate bytes, or
\* characters an earlier, longer content left there.
TailBytes == JunkBytes \cup Chars

\* The storage of a string of length l in a block of r content bytes.
InitStr(r, l) ==
    {d \o <<0>> \o t : d \in [1..l -> Chars], t \in [1..(r - l - 1) -> TailBytes]}

\* Any string slnew, slstr_c or slsiz_c and the calls after them leave behind
\* while capacity >= length + 1 and content[ length ] = 0 hold.
StrInit ==
    /\ blk \in Bases
    /\ sp = sl_str(blk)
    /\ res \in 1..MaxInitRes
    /\ len \in 0..(res - 1)
    /\ str \in InitStr(res, len)
    /\ call = NoCall
    /\ lawful = TRUE

\* A position far beyond the end, as in slins( &s, 128, s ).
SatPos == 128

PosArgs1 == PosArgs \cup {SatPos}

\* No call has been made yet.
Fresh == call.op = "none"

\* The one call made on the string, on record with the string it was made on.
Try(op, args, r) ==
    /\ Commit(r)
    /\ call' = [op |-> op, args |-> args,
                pre |-> [sp |-> sp, blk |-> blk, res |-> res, len |-> len, str |-> str],
                eff |-> Effects(r)]
    /\ UNCHANGED lawful

Try_slnew ==
    /\ Fresh
    /\ \E size \in 1..MaxInitRes, e \in EnvOf(TRUE, FALSE) :
           sp = NULL /\ Try("slnew", [size |-> size], slnew(M, size, e))

Try_sldel ==
    /\ Fresh
    /\ Live /\ Try("sldel", [sp |-> sp], sldel(M))

Try_slres ==
    /\ Fresh
    /\ \E size \in 0..(MaxInitRes + 1) : \E e \in EnvOf(res < size, FALSE) :
           Live /\ Try("slres", [size |-> size], slres(M, size, e))

Try_slmin ==
    /\ Fresh
    /\ \E e \in EnvOf(res > len + 1, FALSE) : Live /\ Try("slmin", [sp |-> sp], slmin(M, e))

Try_slcpy ==
    /\ Fresh
    /\ \E s2 \in SlArgs : \E e \in EnvOf(res < sl_len_of(M, s2) + 1, s2.addr # 0) :
           Live /\ Try("slcpy", [s2 |-> s2], slcpy(M, s2, e))

Try_slcpy_c ==
    /\ Fresh
    /\ \E cs \in CStr : \E e \in EnvOf(res < Len(cs) + 1, FALSE) :
           Live /\ Try("slcpy_c", [s2 |-> CPtr(cs)], slcpy_c(M, CPtr(cs), e))

Try_slcat ==
    /\ Fresh
    /\ \E s2 \in SlArgs : \E e \in EnvOf(res < len + sl_len_of(M, s2) + 1, s2.addr # 0) :
           Live /\ Try("slcat", [s2 |-> s2], slcat(M, s2, e))

Try_slcat_c ==
    /\ Fresh
    /\ \E cs \in CStr : \E e \in EnvOf(res < len + Len(cs) + 1, FALSE) :
           Live /\ Try("slcat_c", [s2 |-> CPtr(cs)], slcat_c(M, CPtr(cs), e))

Try_slins_c ==
    /\ Fresh
    /\ \E cs \in CStr, pos \in PosArgs1 : \E e \in EnvOf(res < len + Len(cs) + 1, FALSE) :
           Live /\ Try("slins_c", [pos |-> pos, s2 |-> CPtr(cs)],
                       slins_c(M, pos, CPtr(cs), e))

\* No string yet.
NoStr == Init

SpecNewRes == (StrInit \/ NoStr) /\ [][Try_slnew \/ Try_slres]_vars
SpecRes == StrInit /\ [][Try_slres]_vars
SpecMin == StrInit /\ [][Try_slmin]_vars
SpecDel == StrInit /\ [][Try_sldel]_vars
SpecCpy == StrInit /\ [][Try_slcpy \/ Try_slcpy_c]_vars
SpecCat == StrInit /\ [][Try_slcat \/ Try_slcat_c]_vars
SpecIns == StrInit /\ [][Try_slins_c]_vars

(* -------------------------------------------------------------- claims *)

Max(a, b) == IF a >= b THEN a ELSE b

\* The content: the first l bytes of the storage s.
Text(s, l) == SubSeq(s, 1, l)

\* The byte at index sllen( s ) lies in the storage and is 0.
Terminated == len < Len(str) /\ str[len + 1] = 0

\* The handle designates the block, whose size is the descriptor's res.
Designates == Live /\ Len(str) = res

\* The allocator did not fail during the call and no byte went astray.
CallOk == ~call.eff.oob /\ ~call.eff.uaf /\ ~call.eff.nullw

\* C1: after any sequence of public mutating operations on a heap string, with
\* every position inside the range of the string and an allocator that never
\* fails, slall( s ) >= sllen( s ) + 1.
C1_Capacity == (Live /\ lawful) => slall(M) >= sllen(M) + 1

\* C2: after any sequence of public operations on a string, with arguments
\* inside the range of the string, the content byte at index sllen( s ) is 0.
C2_Terminated == (Live /\ lawful) => Terminated

\* C3: slcat( &s, s ) on content d of length L yields length 2L, content d d, a
\* 0 at index 2L and capacity max( old capacity, 2L+1 ), with or without a
\* relocation of the buffer.
C3_SelfAppend ==
    (call.op = "slcat" /\ call.args.s2.addr # 0 /\ ~call.eff.nomem) =>
        LET L == call.pre.len
            d == Text(call.pre.str, L)
        IN /\ len = 2 * L
           /\ Terminated
           /\ Text(str, len) = d \o d
           /\ res = Max(call.pre.res, 2 * L + 1)

\* C4: appending a source x of length n that lives outside the destination (d,
\* length L, capacity C) yields content d x, length L+n, a 0 at index L+n and
\* capacity exactly max( C, L+n+1 ); with n = 0 length and content are unchanged.
C4_Append ==
    (call.op \in {"slcat", "slcat_c"} /\ call.args.s2.addr = 0 /\ ~call.eff.nomem) =>
        LET L == call.pre.len
            x == call.args.s2.cs
            n == Len(x)
        IN /\ len = L + n
           /\ Terminated
           /\ Text(str, len) = Text(call.pre.str, L) \o x
           /\ res = Max(call.pre.res, L + n + 1)
           /\ Designates /\ CallOk /\ call.eff.ret = sp

C4_Witness ==
    /\ call.op = "slcat_c"
    /\ Len(call.args.s2.cs) = 2
    /\ call.pre.len = 2
    /\ call.pre.res = 3
    /\ sp # call.pre.sp
    /\ len = 4
    /\ res = 5
    /\ Text(str, 4) = Text(call.pre.str, 2) \o call.args.s2.cs

C6_Reserve ==
    (call.op = "slres" /\ ~call.eff.nomem) =>
        LET n == call.args.size
            C == call.pre.res
        IN /\ res = Max(C, n)
           /\ res >= C
           /\ len = call.pre.len
           /\ Text(str, len + 1) = Text(call.pre.str, len + 1)
           /\ Designates /\ CallOk /\ call.eff.ret = sp
           /\ call.eff.reallocs = (IF n <= C THEN 0 ELSE 1)
           /\ (n <= C => sp = call.pre.sp /\ blk = call.pre.blk /\ str = call.pre.str)

C6_Witness ==
    /\ call.op = "slres"
    /\ call.args.size = call.pre.res + 2
    /\ call.pre.len >= 2
    /\ sp # call.pre.sp
    /\ res = call.pre.res + 2
    /\ call.eff.reallocs = 1

\* C7: slmin( &s ) leaves capacity length + 1 (reallocating only when the
\* capacity was larger), length and content unchanged; an empty string ends
\* with capacity 1.
C7_Shrink ==
    (call.op = "slmin" /\ ~call.eff.nomem) =>
        /\ res = len + 1
        /\ len = call.pre.len
        /\ (len = 0 => res = 1)
        /\ str = Text(call.pre.str, len + 1)
        /\ Designates /\ CallOk /\ call.eff.ret = sp
        /\ call.eff.reallocs = (IF call.pre.res > call.pre.len + 1 THEN 1 ELSE 0)

C7_Witness ==
    /\ call.op = "slmin"
    /\ call.pre.res = 5
    /\ call.pre.len = 2
    /\ res = 3
    /\ call.eff.reallocs = 1
    /\ sp # call.pre.sp

\* C8: sldel( &s ) passes the descriptor address, 8 bytes before the handle, to
\* the free function exactly once, sets the handle to NULL and returns NULL.
C8_Delete ==
    call.op = "sldel" =>
        /\ call.eff.frees = <<call.pre.sp - 8>>
        /\ call.pre.sp - 8 = call.pre.blk
        /\ blk = 0
        /\ sp = NULL
        /\ call.eff.ret = NULL

C8_Witness ==
    /\ call.op = "sldel"
    /\ call.pre.len > 0
    /\ call.eff.frees = <<call.pre.blk>>
    /\ sp = NULL

\* C9: when the allocator returns NULL, slnew and slres return NULL, and
\* nothing is written through the NULL block.
C9_NullOnFailure ==
    (call.op \in {"slnew", "slres"} /\ call.eff.nomem) =>
        /\ call.eff.ret = NULL
        /\ ~call.eff.nullw

\* C10: slins_c( &s, pos, x ) with x outside the destination (d, length L,
\* capacity C) and pos >= -L yields d[0..q) x d[q..L), q = L + pos for pos < 0,
\* pos for 0 <= pos <= L, L for pos > L; length L+n, a 0 at index L+n,
\* capacity max( C, L+n+1 ).
C10_Insert ==
    (call.op = "slins_c" /\ ~call.eff.nomem) =>
        LET L == call.pre.len
            x == call.args.s2.cs
            n == Len(x)
            pos == call.args.pos
            q == IF pos < 0 THEN L + pos ELSE IF pos <= L THEN pos ELSE L
            d == Text(call.pre.str, L)
        IN /\ len = L + n
           /\ Terminated
           /\ Text(str, len) = SubSeq(d, 1, q) \o x \o SubSeq(d, q + 1, L)
           /\ res = Max(call.pre.res, L + n + 1)
           /\ Designates /\ CallOk /\ call.eff.ret = sp

C10_Witness ==
    /\ call.op = "slins_c"
    /\ call.pre.len = 4
    /\ call.args.pos = -1
    /\ Len(call.args.s2.cs) = 2
    /\ len = 6
    /\ Text(str, 6) = SubSeq(call.pre.str, 1, 3) \o call.args.s2.cs
                        \o SubSeq(call.pre.str, 4, 4)
    /\ str[7] = 0

(* ------------------------------------------------------------- selection *)

\* The string a recorded call was made on.
PreM == Machine(call.pre.sp, call.pre.blk, call.pre.res, call.pre.len, call.pre.str)

Min(a, b) == IF a <= b THEN a ELSE b

Try_slsel ==
    /\ Fresh
    /\ Live
    /\ \E a \in PosArgs1, b \in PosArgs1 :
           Try("slsel", [a |-> a, b |-> b], slsel(M, a, b, NoEnv))

SpecSel == StrInit /\ [][Try_slsel]_vars

rdz(m, i, e) ==
    IF i >= 0 /\ i < Len(m.str) THEN m.str[i + 1]
    ELSE IF i = Len(m.str) THEN e.junk ELSE 0

\* s2[ k ] of a C string argument.
pat(cs, k) == IF k < Len(cs) THEN cs[k + 1] ELSE 0

\* A scan from ss + st runs past the storage: no 0 lies at or behind st.
overrun(m, st) == \A k \in (st + 1)..Len(m.str) : k < 1 \/ m.str[k] # 0

RECURSIVE slidx_match(_, _, _, _, _, _)
\* while ( s1[ i ] == s2[ i2 ] && s2[ i2 ] ) { i++; i2++; }   gives i2
slidx_match(m, st, cs, i, i2, e) ==
    IF rdz(m, st + i, e) = pat(cs, i2) /\ pat(cs, i2) # 0
    THEN slidx_match(m, st, cs, i + 1, i2 + 1, e)
    ELSE i2

RECURSIVE slidx_scan(_, _, _, _, _, _)
\* while ( s1[ i1 ] ) { ... i1++; }   i2 keeps its value from one i1 to the next
slidx_scan(m, st, cs, i1, i2, e) ==
    IF rdz(m, st + i1, e) = 0 THEN -1
    ELSE IF rdz(m, st + i1, e) = pat(cs, i2)
    THEN LET j2 == slidx_match(m, st, cs, i1, i2, e)
         IN IF pat(cs, j2) = 0 THEN i1
            ELSE slidx_scan(m, st, cs, i1 + 1, j2, e)
    ELSE slidx_scan(m, st, cs, i1 + 1, i2, e)

\* slidx( ss + st, cs ).
slidx_at(m, st, cs, e) ==
    IF pat(cs, 0) = 0 THEN -1 ELSE slidx_scan(m, st, cs, 0, 0, e)

slidx(m, cs, e) == [m EXCEPT !.ret = slidx_at(m, 0, cs, e)]

Try_slidx ==
    /\ Fresh
    /\ Live
    /\ \E cs \in CStr : Try("slidx", [s2 |-> CPtr(cs)], slidx(M, cs, NoEnv))

SpecIdx == StrInit /\ [][Try_slidx]_vars

\* The pattern p occurs in the content d at index i.
OccursAt(d, p, i) == i + Len(p) <= Len(d) /\ SubSeq(d, i + 1, i + Len(p)) = p

\* The smallest index at which p occurs in d, -1 if there is none or p is empty.
FirstAt(d, p) ==
    LET at == {i \in 0..Len(d) : OccursAt(d, p, i)}
    IN IF p = <<>> \/ at = {} THEN -1
       ELSE CHOOSE i \in at : \A j \in at : i <= j

\* C12: slidx( s, p ) returns the smallest index at which p occurs in s, -1
\* when p does not occur or is empty, and never an index where p does not occur.
C12_Search ==
    call.op = "slidx" =>
        LET d == Text(call.pre.str, call.pre.len)
            p == call.args.s2.cs
        IN /\ call.eff.ret = FirstAt(d, p)
           /\ (call.eff.ret >= 0 => OccursAt(d, p, call.eff.ret))
           /\ str = call.pre.str /\ len = call.pre.len /\ res = call.pre.res

(* ----------------------------------------------------------------- split *)

\* An entry of a piece table nothing was stored in.
Unset == -1

\* char** div: a table of n entries, each the content index a piece starts at.
\* tab = FALSE is the NULL table.
DivOf(n) == [tab |-> TRUE, at |-> [k \in 1..n |-> Unset]]
NoDiv == [tab |-> FALSE, at |-> <<>>]

\* div[ i ] = a, reached only with i < size.
setdiv(st, i, a) ==
    IF ~st.div.tab THEN [st EXCEPT !.m.nullw = TRUE]
    ELSE IF i < Len(st.div.at) THEN [st EXCEPT !.div.at[i + 1] = a]
    ELSE [st EXCEPT !.m.oob = TRUE]

\* What a split has in hand: the string, the table, the count and the cursors.
DivState(m, div) == [m |-> m, div |-> div, cnt |-> 0, a |-> 0, b |-> 0]

RECURSIVE sldiv_loop(_, _, _, _)
\* while ( *b ) { if ( *b == c ) { ... } b++; }
sldiv_loop(st, c, size, e) ==
    LET b == st.b
    IN IF rdz(st.m, b, e) = 0 THEN st
       ELSE IF rdz(st.m, b, e) = c
       THEN LET s1 == IF size >= 0 THEN [st EXCEPT !.m = wr(st.m, b, 0)] ELSE st
                s2 == IF s1.cnt < size
                      THEN \* div[ divcnt ] = a; b += 1; a = b;
                           [setdiv(s1, s1.cnt, s1.a) EXCEPT !.a = b + 1, !.b = b + 1]
                      ELSE s1
            IN sldiv_loop([s2 EXCEPT !.cnt = @ + 1, !.b = @ + 1], c, size, e)
       ELSE sldiv_loop([st EXCEPT !.b = @ + 1], c, size, e)

\* The last piece, and the number of pieces as the return value.
div_done(st, size) ==
    LET s1 == IF st.cnt < size /\ size >= 0 THEN setdiv(st, st.cnt, st.a) ELSE st
    IN [s1 EXCEPT !.m.ret = s1.cnt + 1]

sldiv_base(m, c, size, div, e) ==
    div_done(sldiv_loop(DivState(m, div), c, size, e), size)

\* *div = (char**)sl_malloc( size * sizeof( char* ) ), its result unchecked.
div_malloc(m, size, e) ==
    [m |-> [m EXCEPT !.mallocs = @ + 1, !.nomem = e.fail],
     div |-> IF e.fail THEN NoDiv ELSE DivOf(size)]

\* sldiv that stores nothing for a negative size but nulls what it counts.
sldiv_nulling(m, c, size, div, e) ==
    IF size < 0 THEN sldiv_base(m, c, 0, NoDiv, e)
    ELSE IF div.tab THEN sldiv_base(m, c, size, div, e)
    ELSE LET n == sldiv_base(m, c, -1, NoDiv, e).m.ret
             t == div_malloc(m, n, e)
         IN sldiv_base(t.m, c, n, t.div, e)

sldiv(m, c, size, div, e) ==
    IF size < 0 THEN sldiv_base(m, c, -1, NoDiv, e)
    ELSE IF div.tab THEN sldiv_base(m, c, size, div, e)
    ELSE LET n == sldiv_base(m, c, -1, NoDiv, e).m.ret
             t == div_malloc(m, n, e)
         IN sldiv_base(t.m, c, n, t.div, e)

\* A call on record together with what it left in the caller's variables.
TryOut(op, args, r, out) ==
    /\ Commit(r)
    /\ call' = [op |-> op, args |-> args,
                pre |-> [sp |-> sp, blk |-> blk, res |-> res, len |-> len, str |-> str],
                eff |-> Effects(r), out |-> out]
    /\ UNCHANGED lawful

\* The size arguments of a split: count only, or room for 0 to len + 1 pieces.
SizeArgs == -1 .. (len + 1)

\* The table the caller passes: one of size entries, or NULL.
DivArgs(size) == IF size >= 0 THEN {DivOf(size), NoDiv} ELSE {NoDiv}

Try_sldiv ==
    /\ Fresh
    /\ Live
    /\ \E c \in Chars, size \in SizeArgs :
         \E d \in DivArgs(size), e \in EnvOf(size >= 0, FALSE) :
           (d.tab => ~e.fail /\ e.addr = NoEnv.addr) /\
           LET r == sldiv(M, c, size, d, e)
           IN TryOut("sldiv", [c |-> c, size |-> size, div |-> d], r.m,
                     [div |-> r.div, last |-> r.b])

SpecDiv == StrInit /\ [][Try_sldiv]_vars

\* The indices of the content d that hold the character c.
Hits(d, c) == {i \in 0..(Len(d) - 1) : d[i + 1] = c}

\* The index the i-th piece (i = 0, 1, ...) starts at: 0, or the index behind
\* the i-th occurrence of c.
PieceStart(d, c, i) ==
    IF i = 0 THEN 0
    ELSE 1 + CHOOSE h \in Hits(d, c) : Cardinality({g \in Hits(d, c) : g < h}) = i - 1

\* The C string at content index i of the storage s.
RECURSIVE CStrAt(_, _)
CStrAt(s, i) ==
    IF i < 0 \/ i >= Len(s) \/ s[i + 1] = 0 THEN <<>> ELSE <<s[i + 1]>> \o CStrAt(s, i + 1)

\* C13: sldiv with size < 0 returns the number of occurrences of c plus 1,
\* allocates nothing, stores nothing, and leaves content, length and capacity
\* unchanged.
C13_CountOnly ==
    (call.op = "sldiv" /\ call.args.size < 0) =>
        LET d == Text(call.pre.str, call.pre.len)
        IN /\ call.eff.ret = Cardinality(Hits(d, call.args.c)) + 1
           /\ call.eff.mallocs = 0 /\ call.eff.reallocs = 0 /\ call.eff.frees = <<>>
           /\ call.out.div = call.args.div
           /\ str = call.pre.str /\ len = call.pre.len /\ res = call.pre.res
           /\ sp = call.pre.sp /\ CallOk

C13_Witness ==
    /\ call.op = "sldiv"
    /\ call.args.size < 0
    /\ call.pre.len = 3
    /\ call.eff.ret = 3
    /\ str = call.pre.str

\* C14: sldiv with room for at least k + 1 entries, k the number of occurrences
\* of c, returns k + 1, overwrites every occurrence of c in [0, length) with 0
\* and sets entry i to the start of the i-th piece.
C14_Split ==
    (/\ call.op = "sldiv" /\ call.args.size >= 0 /\ ~call.eff.nomem
     /\ (call.args.div.tab =>
             call.args.size >= Cardinality(Hits(Text(call.pre.str, call.pre.len),
                                                call.args.c)) + 1)) =>
        LET d == Text(call.pre.str, call.pre.len)
            c == call.args.c
            k == Cardinality(Hits(d, c))
        IN /\ call.eff.ret = k + 1
           /\ \A i \in 0..(Len(d) - 1) : str[i + 1] = (IF d[i + 1] = c THEN 0 ELSE d[i + 1])
           /\ Len(call.out.div.at) >= k + 1
           /\ \A i \in 0..k : call.out.div.at[i + 1] = PieceStart(d, c, i)
           /\ len = call.pre.len /\ res = call.pre.res

(* ------------------------------------------------------ segments, repair *)

RECURSIVE slseg_loop(_, _, _, _)
\* while ( *a ) { idx = slidx( a, sc ); if ( idx >= 0 ) { ... } else break; }
slseg_loop(st, sc, size, e) ==
    IF rdz(st.m, st.a, e) = 0 THEN st
    ELSE LET idx == slidx_at(st.m, st.a, sc, e)
         IN IF idx >= 0
            THEN LET b == st.a + idx
                     s1 == IF size >= 0 THEN [st EXCEPT !.m = wr(st.m, b, 0)] ELSE st
                     s2 == IF s1.cnt < size THEN setdiv(s1, s1.cnt, s1.a) ELSE s1
                 IN slseg_loop([s2 EXCEPT !.b = b + Len(sc), !.a = b + Len(sc),
                                          !.cnt = @ + 1], sc, size, e)
            ELSE st

slseg_base(m, sc, size, div, e) ==
    div_done(slseg_loop(DivState(m, div), sc, size, e), size)

slseg(m, sc, size, div, e) ==
    IF size < 0 THEN slseg_base(m, sc, -1, NoDiv, e)
    ELSE IF div.tab THEN slseg_base(m, sc, size, div, e)
    ELSE LET n == slseg_base(m, sc, -1, NoDiv, e).m.ret
             t == div_malloc(m, n, e)
         IN slseg_base(t.m, sc, n, t.div, e)

Try_slseg ==
    /\ Fresh
    /\ Live
    /\ \E sc \in CStr, size \in SizeArgs :
         \E d \in DivArgs(size), e \in EnvOf(size >= 0, FALSE) :
           (d.tab => ~e.fail /\ e.addr = NoEnv.addr) /\
           LET r == slseg(M, sc, size, d, e)
           IN TryOut("slseg", [sc |-> sc, size |-> size, div |-> d], r.m, [div |-> r.div])

\* slswp( s, 0, c ) after a populating split by c, or by a string that starts
\* with c.
Try_slswp ==
    /\ call.op \in {"sldiv", "slseg"}
    /\ call.args.size >= 0
    /\ Live
    /\ \E t \in Chars :
           /\ call.op = "sldiv" => t = call.args.c
           /\ call.op = "slseg" => call.args.sc # <<>> /\ t = call.args.sc[1]
           /\ TryOut("slswp", [f |-> 0, t |-> t], slswp(M, 0, t, NoEnv), [first |-> call])

SpecRepair == StrInit /\ [][Try_sldiv \/ Try_slseg \/ Try_slswp]_vars

\* C15: a populating sldiv( s, c, ... ) followed by slswp( s, 0, c ), and a
\* populating slseg( s, sc, ... ) with non-empty sc followed by
\* slswp( s, 0, sc[ 0 ] ), leave every byte in [0, length], the length and the
\* capacity as they were before the split.
C15_Repair ==
    (call.op = "slswp" /\ ~call.out.first.eff.nomem) =>
        LET was == call.out.first.pre
        IN /\ len = was.len
           /\ res = was.res
           /\ Text(str, len + 1) = Text(was.str, was.len + 1)

(* ------------------------------------------------------------------ glue *)

\* No string: what slnew and slglu start from.
M0 == Machine(NULL, 0, 0, 0, <<>>)

RECURSIVE SumLen(_)
\* while ( i < size ) len += strlen( sa[ i++ ] );
SumLen(xs) == IF xs = <<>> THEN 0 ELSE Len(Head(xs)) + SumLen(Tail(xs))

RECURSIVE slglu_build(_, _, _, _, _)
\* while ( i < size ) { p = sl_cpy( p, sa[ i ] );
\*                      if ( i < ( size - 1 ) ) p = sl_cpy( p, glu ); i++; }
slglu_build(m, p, xs, i, glu) ==
    IF i >= Len(xs) THEN m
    ELSE LET a == wrseq(m, p, xs[i + 1])
             q == p + Len(xs[i + 1])
         IN IF i < Len(xs) - 1
            THEN slglu_build(wrseq(a, q, glu), q + Len(glu), xs, i + 1, glu)
            ELSE slglu_build(a, q, xs, i + 1, glu)

\* slglu that copies the glue behind the last string as well.
slglu_trailing(xs, glu, e) ==
    LET ys == Append(xs, <<>>)
        l == SumLen(ys) + (Len(ys) - 1) * Len(glu)
        a == slnew(M0, l + 1, e)
    IN IF a.nullw THEN a
       ELSE LET b == slglu_build([a EXCEPT !.len = l], 0, ys, 0, glu)
            IN [wr(b, b.len, 0) EXCEPT !.ret = b.sp]

\* slglu( sa, size, glu ) for an array xs of size >= 1 strings.
slglu(xs, glu, e) ==
    LET l == SumLen(xs) + (Len(xs) - 1) * Len(glu)
        a == slnew(M0, l + 1, e)
    IN IF a.nullw THEN a
       ELSE LET b == slglu_build([a EXCEPT !.len = l], 0, xs, 0, glu)
            IN [wr(b, b.len, 0) EXCEPT !.ret = b.sp]

\* The arrays given to slglu: 1 to MaxArg + 1 strings.
Pieces == SeqsUpTo(SeqsUpTo(Chars, MaxPiece), MaxArg + 1) \ {<<>>}

\* What the call of slglu can tell apart in its environment.
GluEnv == {e \in Env : e.fwd = FALSE /\ e.stale = TRUE /\ e.addr = NoEnv.addr
                       /\ (e.fail => e.junk = NoEnv.junk)}

Try_slglu ==
    /\ Fresh
    /\ sp = NULL
    /\ \E xs \in Pieces, glu \in CStr, e \in GluEnv :
           Try("slglu", [sa |-> xs, glu |-> glu], slglu(xs, glu, e))

SpecGlu == NoStr /\ [][Try_slglu]_vars

RECURSIVE Join(_, _)
\* x1 g x2 g ... g xn
Join(xs, g) ==
    IF Len(xs) = 1 THEN xs[1] ELSE xs[1] \o g \o Join(Tail(xs), g)

\* C17: slglu of n >= 1 strings x1..xn and glue g returns a freshly allocated
\* string with content x1 g x2 g ... g xn, length the sum of the |xi| plus
\* (n-1)*|g|, a 0 at index length and capacity length + 1.
C17_Join ==
    (call.op = "slglu" /\ ~call.eff.nomem) =>
        LET xs == call.args.sa
            g == call.args.glu
        IN /\ len = SumLen(xs) + (Len(xs) - 1) * Len(g)
           /\ Text(str, len) = Join(xs, g)
           /\ Terminated
           /\ res = len + 1
           /\ call.eff.mallocs = 1 /\ call.eff.reallocs = 0
           /\ Designates /\ CallOk /\ call.eff.ret = sp

C17_Witness ==
    /\ call.op = "slglu"
    /\ Len(call.args.sa) = 3
    /\ call.args.sa[2] = <<>>
    /\ Len(call.args.sa[3]) = 1
    /\ Len(call.args.glu) = 2
    /\ len = Len(call.args.sa[1]) + 5
    /\ res = len + 1
    /\ str[len + 1] = 0

(* ------------------------------------------------------- split and glue *)

RECURSIVE cstr_at(_, _, _)
\* The C string a char* into the content points at, as strlen and sl_cpy read it.
cstr_at(m, i, e) ==
    IF rdz(m, i, e) = 0 THEN <<>> ELSE <<rdz(m, i, e)>> \o cstr_at(m, i + 1, e)

\* div[ i ] was never stored, or lies behind the table: an indeterminate pointer.
WildAt(div, i) == ~div.tab \/ i >= Len(div.at) \/ div.at[i + 1] = Unset

\* sa[ i ] as slglu reads it from the table a split left; what an indeterminate
\* pointer points at is indeterminate.
PieceOf(m, div, i, e) ==
    IF WildAt(div, i) THEN (IF e.junk = 0 THEN <<>> ELSE <<e.junk>>)
    ELSE cstr_at(m, div.at[i + 1], e)

\* cnt = sldiv( s, c, size, &div ); slglu( div, cnt, glu ): the new string takes
\* the place of s, which stays allocated.
Try_slglu_div ==
    /\ call.op = "sldiv"
    /\ call.args.size >= 0
    /\ ~call.eff.nomem
    /\ Live
    /\ \E glu \in {cs \in CStr : Len(cs) = 1} :
         \E e \in {x \in Env : ~x.fwd /\ x.stale /\ x.addr # blk /\ (x.fail => x.junk = 0)} :
           LET n == call.eff.ret
               xs == [i \in 1..n |-> PieceOf(M, call.out.div, i - 1, e)]
           IN TryOut("slglu", [sa |-> xs, glu |-> glu], slglu(xs, glu, e),
                     [first |-> call,
                      wild |-> \E i \in 0..(n - 1) : WildAt(call.out.div, i)])

SpecSplitJoin == StrInit /\ [][Try_sldiv \/ Try_slglu_div]_vars

\* C16: for content s that holds c at least once and never twice in a row,
\* slglu of the pieces of a populating sldiv( s, c, ... ) with the glue c yields
\* a string whose content and length equal those of s.
C16_SplitJoin ==
    (/\ call.op = "slglu"
     /\ ~call.eff.nomem
     /\ call.args.glu = <<call.out.first.args.c>>
     /\ LET was == call.out.first.pre
            d == Text(was.str, was.len)
            hits == Hits(d, call.out.first.args.c)
        IN /\ hits # {}
           /\ \A h \in hits : h + 1 \notin hits
           /\ call.out.first.args.div.tab =>
                  call.out.first.args.size >= Cardinality(hits) + 1) =>
        LET was == call.out.first.pre
        IN /\ len = was.len
           /\ Text(str, len) = Text(was.str, was.len)
           /\ Terminated
           /\ ~call.out.wild

(* ------------------------------------------------------------- tokenizer *)

\* char* pos = NULL, and a NULL token.
NoPos == -1

\* The token, the cursor and the string one call of sltok leaves.
TokState(m, pos, tok) == [m |-> [m EXCEPT !.ret = tok], pos |-> pos]

sltok(m, delim, pos, e) ==
    IF pos = NoPos
    THEN \* First iteration.
         LET idx == slidx_at(m, 0, delim, e)
         IN IF idx < 0 THEN TokState(m, pos, NoPos)
            ELSE TokState(wr(m, idx, 0), idx, 0)
    ELSE IF pos = m.len
    THEN \* Passed the last iteration.
         TokState(m, pos, NoPos)
    ELSE LET a == wr(m, pos, pat(delim, 0))
             p == pos + Len(delim)
         IN IF rdz(a, p, e) = 0 THEN TokState(a, a.len, NoPos)
            ELSE LET idx == slidx_at(a, p, delim, e)
                 IN IF idx < 0 THEN TokState(a, a.len, p)
                    ELSE TokState(wr(a, p + idx, 0), p + idx, p)

\* The cursor and the tokens so far of the iteration on record.
TokPos == IF call.op = "sltok" THEN call.out.pos ELSE NoPos
TokSeq == IF call.op = "sltok" THEN call.out.toks ELSE <<>>
TokCalls == IF call.op = "sltok" THEN call.out.calls ELSE 0
TokOrig == IF call.op = "sltok" THEN call.pre
           ELSE [sp |-> sp, blk |-> blk, res |-> res, len |-> len, str |-> str]

\* One more sltok( s, delim, &pos ) of an iteration over s; pre is the string
\* as it was before the first call.
Try_sltok ==
    /\ call.op \in {"none", "sltok"}
    /\ Live
    /\ TokCalls <= TokOrig.len + 2
    /\ \E delim \in CStr, j \in JunkBytes :
           /\ call.op = "sltok" => delim = call.args.delim /\ j = call.out.junk
           /\ LET e == [NoEnv EXCEPT !.junk = j]
                  r == sltok(M, delim, TokPos, e)
                  tok == r.m.ret
              IN /\ Commit(r.m)
                 /\ call' = [op |-> "sltok", args |-> [delim |-> delim],
                             pre |-> TokOrig, eff |-> Effects(r.m),
                             out |-> [pos |-> r.pos, tok |-> tok, junk |-> j,
                                      calls |-> TokCalls + 1,
                                      toks |-> IF tok = NoPos THEN TokSeq
                                               ELSE Append(TokSeq, cstr_at(r.m, tok, e))]]
                 /\ UNCHANGED lawful

SpecTok == StrInit /\ [][Try_sltok]_vars

RECURSIVE SplitBy(_, _)
\* The pieces of d between the occurrences of p found from left to right.
SplitBy(d, p) ==
    LET i == FirstAt(d, p)
    IN IF i < 0 THEN <<d>>
       ELSE <<SubSeq(d, 1, i)>> \o SplitBy(SubSeq(d, i + Len(p) + 1, Len(d)), p)

\* The tokens an iteration over d returns: none when p does not occur, and no
\* empty piece behind a delimiter that ends d.
Tokens(d, p) ==
    LET ps == SplitBy(d, p)
    IN IF Len(ps) = 1 THEN <<>>
       ELSE IF ps[Len(ps)] = <<>> THEN SubSeq(ps, 1, Len(ps) - 1) ELSE ps

\* C18: successive sltok calls with a non-empty delimiter d return, in order,
\* the pieces of s between the occurrences of d, then NULL on every later call;
\* NULL at once when d does not occur; the sequence ends after at most
\* (number of occurrences) + 2 calls.
C18_TokenSequence ==
    (call.op = "sltok" /\ call.args.delim # <<>>) =>
        LET exp == Tokens(Text(call.pre.str, call.pre.len), call.args.delim)
            n == call.out.calls
        IN /\ call.out.toks = SubSeq(exp, 1, Min(n, Len(exp)))
           /\ (call.out.tok = NoPos) = (n > Len(exp))

\* C19: during a sltok iteration at most one byte of [0, length] differs from
\* the original after every call, the first byte of the delimiter occurrence
\* that ends the token just returned, set to 0; after the final token or NULL
\* every byte of [0, length] is the original, and sllen( s ) never changes.
C19_TokenRestore ==
    (call.op = "sltok" /\ call.args.delim # <<>>) =>
        LET was == call.pre
            diff == {i \in 0..was.len : str[i + 1] # was.str[i + 1]}
            tok == call.out.tok
        IN /\ len = was.len /\ res = was.res
           /\ Cardinality(diff) <= 1
           /\ \A i \in diff :
                  /\ str[i + 1] = 0
                  /\ tok # NoPos
                  /\ i = call.out.pos
                  /\ OccursAt(Text(was.str, was.len), call.args.delim, i)
           /\ (tok = NoPos \/ call.out.pos = was.len) => diff = {}

(* ------------------------------------------------------------- directory *)

Try_sldir ==
    /\ Fresh
    /\ Live
    /\ \E j \in JunkBytes :
           Try("sldir", [sp |-> sp], sldir(M, [NoEnv EXCEPT !.junk = j]))

SpecDir == StrInit /\ [][Try_sldir]_vars

\* C20: sldir( s ) leaves s[0..i) when the last '/' is at index i > 0, "/" when
\* the only '/' is at index 0, "." when s holds no '/', 0-terminated within the
\* capacity of the string in every case.
C20_Directory ==
    call.op = "sldir" =>
        LET d == Text(call.pre.str, call.pre.len)
            at == Hits(d, Slash)
            i == IF at = {} THEN -1 ELSE CHOOSE h \in at : \A g \in at : g <= h
        IN /\ Text(str, len) = (IF i > 0 THEN SubSeq(d, 1, i)
                                ELSE IF i = 0 THEN <<Slash>> ELSE <<Dot>>)
           /\ len = (IF i > 0 THEN i ELSE 1)
           /\ Terminated
           /\ res >= len + 1
           /\ res = call.pre.res
           /\ Designates /\ CallOk

(* ------------------------------------------------------------- base name *)

Try_slbas ==
    /\ Fresh
    /\ Live
    /\ \E j \in JunkBytes :
           Try("slbas", [sp |-> sp], slbas(M, [NoEnv EXCEPT !.junk = j]))

SpecBas == StrInit /\ [][Try_slbas]_vars

\* Index of the last '/' of d, -1 when d holds none.
LastSlash(d) ==
    LET at == Hits(d, Slash)
    IN IF at = {} THEN -1 ELSE CHOOSE h \in at : \A g \in at : g <= h

\* C21: slbas( s ) leaves s[i+1..L) with length L-i-1 when the last '/' of s is
\* at index i (i = 0 included), leaves content and length unchanged when s
\* holds no '/'; the result is 0-terminated and the capacity is unchanged.
C21_Basename ==
    call.op = "slbas" =>
        LET L == call.pre.len
            d == Text(call.pre.str, L)
            i == LastSlash(d)
        IN /\ Text(str, len) = (IF i >= 0 THEN SubSeq(d, i + 2, L) ELSE d)
           /\ len = (IF i >= 0 THEN L - i - 1 ELSE L)
           /\ Terminated
           /\ res = call.pre.res
           /\ call.eff.ret = sp
           /\ Designates /\ CallOk

\* A base name of two characters is left of a path whose last '/' is not its
\* first character.
C21_Witness ==
    /\ call.op = "slbas"
    /\ LastSlash(Text(call.pre.str, call.pre.len)) = 1
    /\ call.pre.len = 4
    /\ len = 2

\* A path that starts with its only '/'.
C21_WitnessRoot ==
    /\ call.op = "slbas"
    /\ LastSlash(Text(call.pre.str, call.pre.len)) = 0
    /\ call.pre.len = 3

(* ---------------------------------------------------------- substitution *)

RECURSIVE sl_cpy(_, _, _, _)
\* sl_cpy( ss + a, ss + b ): bytes up to the 0 are copied from low to high;
\* gives the storage and the index of the destination's end.
sl_cpy(m, a, b, e) ==
    IF rdz(m, b, e) = 0 THEN [m |-> m, a |-> a]
    ELSE sl_cpy(wr(m, a, rdz(m, b, e)), a + 1, b + 1, e)

RECURSIVE slmap_count(_, _, _, _)
\* while ( 1 ) { idx = slidx( a, f ); if ( idx >= 0 ) { cnt++; a += idx + f_len; } else break; }
slmap_count(m, a, f, e) ==
    LET idx == slidx_at(m, a, f, e)
    IN IF idx >= 0 THEN 1 + slmap_count(m, a + idx + Len(f), f, e) ELSE 0

RECURSIVE slmap_loop(_, _, _, _, _, _)
\* while ( *b ) { ... }  if ( *b == 0 ) *a = 0;
slmap_loop(m, a, b, f, t, e) ==
    IF rdz(m, b, e) = 0 THEN wr(m, a, 0)
    ELSE LET idx == slidx_at(m, b, f, e)
         IN IF idx >= 0
            THEN LET c == strncpy_s(m, a, b, idx, e)
                     d == wrseq(c, a + idx, t)
                 IN slmap_loop(d, a + idx + Len(t), b + idx + Len(f), f, t, e)
            ELSE LET r == sl_cpy(m, a, b, e)
                 IN wr(r.m, r.a, 0)

slmap(m, f, t, e) ==
    IF Len(t) > Len(f)
    THEN LET cnt == slmap_count(m, 0, f, e)
             olen == m.len
             nlen == olen - cnt * Len(f) + cnt * Len(t)
             a1 == sl_ensure(m, nlen + 1, e)
         IN IF a1.nullw THEN a1
            ELSE LET a2 == [a1 EXCEPT !.len = nlen]
                     a3 == memmove(a2, nlen - olen, 0, olen + 1, e)
                     a4 == slmap_loop(a3, 0, nlen - olen, f, t, e)
                 IN [a4 EXCEPT !.ret = a4.sp]
    ELSE [slmap_loop(m, 0, 0, f, t, e) EXCEPT !.ret = m.sp]

\* The environments of a call that may grow the string and copies within it;
\* the allocator does not fail.
MapEnv == {e \in Env : ~e.fail /\ e.stale}

Try_slmap ==
    /\ Fresh
    /\ Live
    /\ \E f \in CStr \ {<<>>}, t \in CStr, e \in MapEnv :
           Try("slmap", [f |-> f, t |-> t], slmap(M, f, t, e))

SpecMap == StrInit /\ [][Try_slmap]_vars

RECURSIVE Replaced(_, _, _)
\* d with every occurrence of f, found left to right without overlap, replaced by t.
Replaced(d, f, t) ==
    LET i == FirstAt(d, f)
    IN IF i = -1 THEN d
       ELSE SubSeq(d, 1, i) \o t \o Replaced(SubSeq(d, i + Len(f) + 1, Len(d)), f, t)

\* C22: slmap( &s, f, t ) with a non-empty f leaves s with every non-overlapping
\* occurrence of f, found left to right, replaced by t; sllen( s ) is the byte
\* count of the new content, the byte at index sllen( s ) is 0 and the capacity
\* is at least sllen( s ) + 1.
C22_Substitute ==
    call.op = "slmap" =>
        LET d == Text(call.pre.str, call.pre.len)
            x == Replaced(d, call.args.f, call.args.t)
        IN /\ len = Len(x)
           /\ len < Len(str)
           /\ Text(str, len) = x
           /\ Terminated
           /\ res >= len + 1
           /\ Designates /\ CallOk

(* ------------------------------------------------------- adopted storage *)

\* Longest string a sequence of calls on adopted storage builds.
MaxUseLen == 4
\* char buf[ 128 ]; ss = sluse( buf, 128 );
BufSize == 128

\* The sizes of the storage handed to sluse.
UseSizes == ((SlSize + 1)..(SlSize + MaxUseLen)) \cup {BufSize}

\* sluse that takes the whole storage for the content.
sluse_whole(m, ss, size, e) ==
    LET a == [m EXCEPT !.blk = ss, !.str = [k \in 1..(size - SlSize) |-> e.junk],
                       !.res = size, !.len = 0, !.sp = sl_str(ss)]
    IN [wr(a, 0, 0) EXCEPT !.ret = sl_str(ss)]

\* sluse( ss, size ): ss is storage of size indeterminate bytes the caller owns.
sluse(m, ss, size, e) ==
    LET a == [m EXCEPT !.blk = ss, !.str = [k \in 1..(size - SlSize) |-> e.junk],
                       !.res = size - SlSize, !.len = 0, !.sp = sl_str(ss)]
    IN [wr(a, 0, 0) EXCEPT !.ret = sl_str(ss)]

\* The storage is adopted; on record stay its address and size, the calls of
\* the reallocator since, and whether every length stayed within size - 9.
Try_sluse ==
    /\ Fresh
    /\ sp = NULL
    /\ \E mem \in Bases, size \in UseSizes, j \in JunkBytes :
           LET r == sluse(M, mem, size, [NoEnv EXCEPT !.junk = j])
           IN /\ Commit(r)
              /\ call' = [op |-> "sluse", last |-> "sluse", mem |-> mem, size |-> size,
                          ret |-> r.ret, reallocs |-> 0, within |-> TRUE]
              /\ UNCHANGED lawful

\* One more call on the adopted storage, made to get a string of length n.
Use(op, r, n) ==
    /\ r.len \in 0..MaxUseLen
    /\ Commit(r)
    /\ call' = [call EXCEPT !.last = op, !.ret = r.ret,
                            !.reallocs = @ + r.reallocs,
                            !.within = n <= call.size - (SlSize + 1)]
    /\ UNCHANGED lawful

\* The storage is in use and no length has gone beyond it.
InUse == call.op = "sluse" /\ call.within

Use_slcpy_c ==
    /\ InUse
    /\ \E cs \in CStr : \E e \in EnvOf(res < Len(cs) + 1, FALSE) :
           Use("slcpy_c", slcpy_c(M, CPtr(cs), e), Len(cs))

Use_slcat ==
    /\ InUse
    /\ \E s2 \in SlArgs : \E e \in EnvOf(res < len + sl_len_of(M, s2) + 1, s2.addr # 0) :
           Use("slcat", slcat(M, s2, e), len + sl_len_of(M, s2))

Use_slcat_c ==
    /\ InUse
    /\ \E cs \in CStr : \E e \in EnvOf(res < len + Len(cs) + 1, FALSE) :
           Use("slcat_c", slcat_c(M, CPtr(cs), e), len + Len(cs))

Use_slfil ==
    /\ InUse
    /\ \E c \in Chars, cnt \in 0..MaxArg : \E e \in EnvOf(res < len + cnt + 1, FALSE) :
           Use("slfil", slfil(M, c, cnt, e), len + cnt)

Use_slins_c ==
    /\ InUse
    /\ \E cs \in CStr, pos \in PosArgs1 : \E e \in EnvOf(res < len + Len(cs) + 1, FALSE) :
           Use("slins_c", slins_c(M, pos, CPtr(cs), e), len + Len(cs))

SpecUse ==
    NoStr /\ [][Try_sluse \/ Use_slcpy_c \/ Use_slcat \/ Use_slcat_c
                  \/ Use_slfil \/ Use_slins_c]_vars

\* C23: sluse( mem, size ) with size >= 9 gives an empty string of capacity
\* size - 8 located 8 bytes into mem; in every later sequence of slcpy_c, slcat,
\* slcat_c, slfil and slins_c whose lengths stay <= size - 9 the reallocator is
\* never called and the handle keeps pointing into mem.
C23_UseInPlace ==
    call.op = "sluse" =>
        /\ call.last = "sluse" =>
               /\ sllen(M) = 0
               /\ Text(str, len) = <<>>
               /\ Terminated
               /\ call.ret = call.mem + SlSize
        /\ call.within =>
               /\ call.reallocs = 0
               /\ sp = call.mem + SlSize
               /\ blk = call.mem
               /\ slall(M) = call.size - SlSize
               /\ Len(str) = call.size - SlSize

\* The smallest storage that holds one character, filled to the last byte.
C23_Witness ==
    /\ call.op = "sluse"
    /\ call.last \in {"slcat", "slins_c", "slfil"}
    /\ call.size = SlSize + 2
    /\ call.within
    /\ len = call.size - (SlSize + 1)

\* 128 bytes give room for 119 characters and the 0.
C23_WitnessBuf ==
    /\ call.op = "sluse"
    /\ call.last = "sluse"
    /\ call.size = BufSize
    /\ slall(M) = 119 + 1

\* A length beyond size - 9 makes the library call the reallocator.
C23_WitnessBeyond ==
    /\ call.op = "sluse"
    /\ ~call.within
    /\ call.reallocs > 0

(* -------------------------------------------------------- repeated append *)

Try_slmul ==
    /\ Fresh
    /\ Live
    /\ \E cs \in CStr, cnt \in 0..MaxArg :
           \E e \in {x \in EnvOf(res < len + cnt * Len(cs) + 1, FALSE) : ~x.fail} :
               Try("slmul", [cs |-> cs, cnt |-> cnt], slmul(M, cs, cnt, e))

SpecMul == StrInit /\ [][Try_slmul]_vars

RECURSIVE Copies(_, _)
\* cnt copies of cs, one after the other.
Copies(cs, cnt) == IF cnt = 0 THEN <<>> ELSE cs \o Copies(cs, cnt - 1)

\* C24: slmul( &s, cs, cnt ) appends cs cnt times: the content is the old
\* content followed by cnt copies of cs, the length is L + cnt*|cs| and the
\* byte at index L + cnt*|cs| is 0.
C24_Repeat ==
    call.op = "slmul" =>
        LET L == call.pre.len
            d == Text(call.pre.str, L)
            n == L + call.args.cnt * Len(call.args.cs)
        IN /\ len = n
           /\ n < Len(str)
           /\ Text(str, n) = d \o Copies(call.args.cs, call.args.cnt)
           /\ str[n + 1] = 0
           /\ Designates /\ CallOk

(* ------------------------------------------------------------------ push *)

Try_slpsh ==
    /\ Fresh
    /\ Live
    /\ \E pos \in PosArgs1, c \in Chars :
           \E e \in {x \in EnvOf(res < len + 1, FALSE) : ~x.fail} :
               Try("slpsh", [pos |-> pos, c |-> c], slpsh(M, pos, c, e))

SpecPsh == StrInit /\ [][Try_slpsh]_vars

\* C25: slpsh( &s, pos, c ) on content d of length L and any capacity >= L+1,
\* pos >= -L normalizing to q, gives d[0..q) c d[q..L), length L+1 and a 0 at
\* index L+1; the capacity afterwards is at least L+2 and no byte is written
\* at an index >= capacity.
C25_Push ==
    call.op = "slpsh" =>
        LET L == call.pre.len
            d == Text(call.pre.str, L)
            q == sl_norm_idx(PreM, call.args.pos)
        IN /\ len = L + 1
           /\ slall(M) >= L + 2
           /\ len < Len(str)
           /\ Text(str, len) = SubSeq(d, 1, q) \o <<call.args.c>> \o SubSeq(d, q + 1, L)
           /\ Terminated
           /\ Designates /\ CallOk

(* ---------------------------------------------------------- quick format *)

\* '%'
Percent == 37

\* The pieces format strings are made of: 'a', the directives %s %S %i %I %u
\* %U %c %%, "%d" (no directive), and a '%' with nothing of its own behind it.
FmtItems ==
    {<<97>>, <<Percent>>, <<Percent, 100>>, <<Percent, Percent>>}
        \cup {<<Percent, d>> : d \in {115, 83, 105, 73, 117, 85, 99}}

RECURSIVE FmtsOf(_)
\* The format strings of up to n pieces (without their terminating 0).
FmtsOf(n) ==
    IF n = 0 THEN {<<>>}
    ELSE LET shorter == FmtsOf(n - 1)
         IN shorter \cup {f \o x : f \in shorter, x \in FmtItems}

Fmts == FmtsOf(MaxArg)

\* What the caller passes: the string every %s and %S stands for, the integer
\* of %i and %I, the unsigned integer of %u and %U, the character of %c.
FmtVals == [s : {<<>>, <<97, 47>>}, i : {-10, 5}, u : {0}, c : {97}]

\* fmt[ k ]: behind the terminating 0 lies an indeterminate byte, and a 0 no
\* later than the byte after it.
fmt_at(fmt, k, e) ==
    IF k < Len(fmt) THEN fmt[k + 1]
    ELSE IF k = Len(fmt) + 1 THEN e.junk ELSE 0

\* The kind of argument the directive letter d takes, "" if none.
ArgKind(d) ==
    CASE d \in {115, 83} -> "s"
      [] d \in {105, 73} -> "i"
      [] d \in {117, 85} -> "u"
      [] d = 99 -> "c"
      [] OTHER -> ""

RECURSIVE ArgList(_, _, _)
\* The variable arguments of a call with format fmt, from fmt[ k ] on: one
\* argument of the right type for each directive that stands for one.
ArgList(fmt, k, v) ==
    IF k >= Len(fmt) THEN <<>>
    ELSE IF fmt[k + 1] = Percent /\ k + 1 < Len(fmt)
    THEN LET t == ArgKind(fmt[k + 2])
         IN (IF t = "" THEN <<>> ELSE <<[t |-> t, v |-> v[t]]>>) \o ArgList(fmt, k + 2, v)
    ELSE ArgList(fmt, k + 1, v)

\* va_arg( ap, type ) at the j-th argument finds an argument it can take as
\* type t: integers and characters are passed as int, an unsigned one reads
\* as a non-negative int and the other way round.
va_fits(ap, j, t) ==
    /\ j < Len(ap)
    /\ \/ t = "s" /\ ap[j + 1].t = "s"
       \/ t # "s" /\ ap[j + 1].t # "s" /\ (t = ap[j + 1].t \/ ap[j + 1].v >= 0)

RECURSIVE sl_u64_str_len(_)
\* do { u64 /= 10; len++; } while ( u64 != 0 );
sl_u64_str_len(u64) ==
    IF u64 \div 10 # 0 THEN 1 + sl_u64_str_len(u64 \div 10) ELSE 1

RECURSIVE u64_digits(_)
\* do { *c++ = ( u64 % 10 ) + '0'; u64 /= 10; } while ( u64 != 0 );
u64_digits(u64) ==
    <<(u64 % 10) + 48>> \o (IF u64 \div 10 # 0 THEN u64_digits(u64 \div 10) ELSE <<>>)

\* sl_u64_to_str( u64, ss + wp ): the digits from the lowest, a 0 behind
\* them, then the digits reversed in place.
sl_u64_to_str(m, wp, u64) ==
    LET ds == u64_digits(u64)
        a == wr(wrseq(m, wp, ds), wp + Len(ds), 0)
    IN wrseq(a, wp, [k \in 1..Len(ds) |-> ds[Len(ds) + 1 - k]])

sl_i64_str_len(i64) ==
    IF i64 < 0 THEN sl_u64_str_len(0 - i64) + 1 ELSE sl_u64_str_len(i64)

sl_i64_to_str(m, wp, i64) ==
    IF i64 < 0 THEN sl_u64_to_str(wr(m, wp, 45), wp + 1, 0 - i64)
    ELSE sl_u64_to_str(m, wp, i64)

\* The first pass at the byte d behind a '%': the size it adds, the arguments
\* it takes, and whether it takes an argument as a type it was not passed as
\* (the size is then indeterminate).
slvpq_dsize(d, ap, j, e) ==
    LET t == ArgKind(d)
        fits == va_fits(ap, j, t)
        wildsize == IF e.junk = 0 THEN 0 ELSE 1
    IN CASE t = "s" -> [size |-> IF fits THEN Len(ap[j + 1].v) ELSE wildsize,
                        used |-> 1, wild |-> ~fits]
         [] t = "i" -> [size |-> IF fits THEN sl_i64_str_len(ap[j + 1].v) ELSE wildsize,
                        used |-> 1, wild |-> ~fits]
         [] t = "u" -> [size |-> IF fits THEN sl_u64_str_len(ap[j + 1].v) ELSE wildsize,
                        used |-> 1, wild |-> ~fits]
         [] t = "c" -> [size |-> 1, used |-> 0, wild |-> FALSE]
         [] OTHER -> [size |-> IF d = Percent THEN 1 ELSE 0, used |-> 0, wild |-> FALSE]

RECURSIVE slvpq_size(_, _, _, _, _, _)
\* The first while ( *c ) loop from c = fmt + k with j arguments taken and the
\* sum t so far: the size, whether the loop reads behind the terminating 0 of
\* fmt, and whether it takes an argument as a type it was not passed as.
slvpq_size(fmt, k, ap, j, e, t) ==
    LET b == fmt_at(fmt, k, e)
        u == [t EXCEPT !.over = @ \/ k > Len(fmt)]
    IN IF b = 0 THEN u
       ELSE IF b = Percent
       THEN LET d == slvpq_dsize(fmt_at(fmt, k + 1, e), ap, j, e)
            IN slvpq_size(fmt, k + 2, ap, j + d.used, e,
                          [u EXCEPT !.size = @ + d.size, !.wild = @ \/ d.wild])
       ELSE slvpq_size(fmt, k + 1, ap, j, e, [u EXCEPT !.size = @ + 1])

\* What the second pass stores at ss + wp for the byte d behind a '%'; gives
\* the storage, the new wp and the arguments taken.
slvpq_dwrite(m, wp, d, ap, j) ==
    LET t == ArgKind(d)
        v == IF j < Len(ap) THEN ap[j + 1].v ELSE 0
    IN CASE t = "s" -> [m |-> strncpy_c(m, wp, v, Len(v)), wp |-> wp + Len(v), used |-> 1]
         [] t = "i" -> [m |-> sl_i64_to_str(m, wp, v), wp |-> wp + sl_i64_str_len(v),
                        used |-> 1]
         [] t = "u" -> [m |-> sl_u64_to_str(m, wp, v), wp |-> wp + sl_u64_str_len(v),
                        used |-> 1]
         [] t = "c" -> [m |-> wr(m, wp, v), wp |-> wp + 1, used |-> 1]
         [] OTHER -> [m |-> wr(m, wp, d), wp |-> wp + 1, used |-> 0]

RECURSIVE slvpq_write(_, _, _, _, _, _, _)
\* The second while ( *c ) loop from c = fmt + k with j arguments taken.
slvpq_write(m, wp, fmt, k, ap, j, e) ==
    LET b == fmt_at(fmt, k, e)
    IN IF b = 0 THEN [m |-> m, wp |-> wp, over |-> k > Len(fmt)]
       ELSE IF b = Percent
       THEN LET w == slvpq_dwrite(m, wp, fmt_at(fmt, k + 1, e), ap, j)
                rest == slvpq_write(w.m, w.wp, fmt, k + 2, ap, j + w.used, e)
            IN [rest EXCEPT !.over = k > Len(fmt) \/ @]
       ELSE LET rest == slvpq_write(wr(m, wp, b), wp + 1, fmt, k + 1, ap, j, e)
            IN [rest EXCEPT !.over = k > Len(fmt) \/ @]

\* slvpq( sp, fmt, ap ); gives the storage, the size the first pass measured,
\* the number of bytes the second pass stored before the final 0, whether a
\* pass read behind the terminating 0 of fmt, and whether the first pass took
\* an argument as a type it was not passed as.
slvpq(m, fmt, ap, e) ==
    LET p1 == slvpq_size(fmt, 0, ap, 0, e, [size |-> 0, over |-> FALSE, wild |-> FALSE])
        a1 == sl_ensure(m, sl_len1(m) + p1.size, e)
    IN IF a1.nullw
       THEN [m |-> a1, measured |-> p1.size, written |-> 0, over |-> p1.over,
             wild |-> p1.wild]
       ELSE LET wp == a1.len
                a2 == [a1 EXCEPT !.len = @ + p1.size]
                p2 == slvpq_write(a2, wp, fmt, 0, ap, 0, e)
                a3 == wr(p2.m, p2.wp, 0)
            IN [m |-> [a3 EXCEPT !.ret = a3.sp], measured |-> p1.size,
                written |-> p2.wp - wp, over |-> p1.over \/ p2.over,
                wild |-> p1.wild]

\* The strings a format is applied to: any content in a storage of up to
\* MaxRes bytes at the first address.
FmtInit == StrInit /\ res <= MaxRes /\ blk = NoEnv.addr

Try_slvpq ==
    /\ Fresh
    /\ Live
    /\ \E fmt \in Fmts, v \in FmtVals :
           \E e \in {x \in EnvOf(TRUE, FALSE) : ~x.fail} :
               LET ap == ArgList(fmt, 0, v)
                   r == slvpq(M, fmt, ap, e)
               IN TryOut("slvpq", [fmt |-> fmt, ap |-> ap], r.m,
                         [measured |-> r.measured, written |-> r.written,
                          over |-> r.over, wild |-> r.wild])

SpecFmq == FmtInit /\ [][Try_slvpq]_vars

\* C26: for every format string given to slvpq the number of bytes the second
\* pass writes equals the size the first pass measured; sllen( s ) is the old
\* length plus the bytes written, the byte at index sllen( s ) is 0, no byte is
\* written at an index >= capacity, and neither pass reads the format string
\* behind its terminating 0.
C26_QuickFormat ==
    call.op = "slvpq" =>
        /\ ~call.out.wild
        /\ call.out.written = call.out.measured
        /\ len = call.pre.len + call.out.written
        /\ Terminated
        /\ ~call.eff.oob
        /\ ~call.out.over
        /\ Designates

(* ------------------------------------------------------------ self-insert *)

\* slins( &s, pos, s ): the source is the handle itself.
Try_slins ==
    /\ Fresh
    /\ Live
    /\ \E pos \in PosArgs1 :
           \E e \in {x \in EnvOf(res < 2 * len + 1, TRUE) : ~x.fail} :
               Try("slins", [pos |-> pos, s2 |-> SlPtr(M)], slins(M, pos, SlPtr(M), e))

SpecSelfIns == StrInit /\ [][Try_slins]_vars

\* C27: slins( &s, pos, s ) on content d of length L, pos >= -L normalizing to
\* q, gives d[0..q) d d[q..L), length 2L, a 0 at index 2L and capacity
\* max( old capacity, 2L+1 ).
C27_SelfInsert ==
    call.op = "slins" =>
        LET L == call.pre.len
            d == Text(call.pre.str, L)
            q == sl_norm_idx(PreM, call.args.pos)
        IN /\ len = 2 * L
           /\ len < Len(str)
           /\ Text(str, len) = SubSeq(d, 1, q) \o d \o SubSeq(d, q + 1, L)
           /\ Terminated
           /\ res = Max(call.pre.res, 2 * L + 1)
           /\ Designates

(* ----------------------------------------------------- bounds of a split *)

\* The content indices at which the storage differs from what it was before
\* the call.
Changed == {i \in 0..(Len(str) - 1) : str[i + 1] # call.pre.str[i + 1]}

\* C28: during sldiv (count only, or populating a table of any size n >= 0 the
\* caller passes or the library allocates) on a string of length L no content
\* byte at an index > L is read, no content byte outside [0, L) is written and
\* no entry of the table at an index >= its size is written.  The scan reads
\* the bytes up to the one it stops at, call.out.last.
C28_SplitInside ==
    (call.op = "sldiv" /\ ~call.eff.nomem) =>
        /\ call.out.last <= call.pre.len
        /\ \A i \in Changed : i < call.pre.len
        /\ ~call.eff.oob
        /\ ~call.eff.nullw

(* ------------------------------------------------------- released blocks *)

\* Calls whose source is the destination itself.
SpecSelf == StrInit /\ [][Try_slcat \/ Try_slins]_vars

\* The reallocator moved the storage during the call.
Moved == call.eff.reallocs > 0 /\ ~call.eff.nomem /\ sp # call.pre.sp

\* C29: in slcat( &s, s ) and slins( &s, pos, s ), whenever ensuring capacity
\* makes the reallocator move the buffer, no byte of the released block is read
\* or written afterwards, and the caller's handle designates the new block on
\* return.
C29_NoReleasedUse ==
    (call.op \in {"slcat", "slins"} /\ call.args.s2.addr # 0 /\ Moved) =>
        /\ ~call.eff.uaf
        /\ Designates
        /\ call.eff.ret = sp

(* -------------------------------------------------------- index inversion *)

\* The difference is taken in sl_size_t and returned as int: for pos within
\* -len .. len that is the integer below.
slinv(m, pos) ==
    [m EXCEPT !.ret = IF pos > 0 THEN (-1) * (m.len - pos) ELSE m.len + pos]

\* The indices that name a character of the string, in either convention.
CharPos == (0 - len) .. (len - 1)

Try_slinv ==
    /\ Fresh
    /\ Live
    /\ \E pos \in CharPos : Try("slinv", [pos |-> pos], slinv(M, pos))

SpecInv == StrInit /\ [][Try_slinv]_vars

\* C30: for a string of length L >= 1 and an index pos that names a character
\* (0 <= pos <= L-1 or -L <= pos <= -1), slinv( s, pos ) is an index of the
\* other sign convention that normalizes to the same character position, and
\* slinv( s, slinv( s, pos ) ) = pos.
C30_Inversion ==
    (call.op = "slinv" /\ call.pre.len >= 1) =>
        LET pos == call.args.pos
            inv == call.eff.ret
        IN /\ (pos >= 0 => inv < 0)
           /\ (pos < 0 => inv >= 0)
           /\ sl_norm_idx(PreM, inv) = sl_norm_idx(PreM, pos)
           /\ slinv(PreM, inv).ret = pos
           /\ str = call.pre.str /\ len = call.pre.len /\ res = call.pre.res

====
